---- MODULE Spec2Model ----
(***************************************************************************)
(* Model of tic-tac-toe-creator.js: the breadth-first page generator       *)
(* generatePaths, the minimax opponent (getBestMove, minimax,              *)
(* evaluateBoard) and the board utilities.                                 *)
(*                                                                         *)
(* JavaScript arrays are modelled as functions over 0..n-1, so an index of *)
(* the model is the index of the code; the work queue, which is only       *)
(* shifted and pushed, is a sequence.  A board is held in row-major order: *)
(* board[i][j] of the code is board[i * SIZE + j] here, the index the code *)
(* itself uses for the CSV slots (lines 47 and 97).  A cell is "", "X" or  *)
(* "O".  TLC cannot hold a number and a string in one array, so the        *)
(* numeric slots of a CSV row hold the decimal numeral that Array.join     *)
(* prints for them.                                                        *)
(***************************************************************************)
EXTENDS Integers, Sequences, FiniteSets, TLC

VARIABLES
    currentPage,   \* module-level counter, line 7
    pages,         \* module-level map key -> record, line 8
    queue,         \* generatePaths: const queue, line 27
    pc,            \* position of the program between loop iterations
    enqueued,      \* history: keys in the order they were put on the queue
    dequeued,      \* history: keys in the order they were shifted off it
    written,       \* history: keys in the order their content was stored
    calls,         \* history: number of calls of generatePaths so far
    previous,      \* history: pages as the previous call returned it
    replies,       \* history: the calls of getBestMove at line 72, in order
    arg,           \* a function called on its own: its argument
    ret            \* a function called on its own: what it returned

vars == <<currentPage, pages, queue, pc, enqueued, dequeued, written, calls,
          previous, replies, arg, ret>>

SIZE == 3

\* Number of calls of generatePaths the two-call specification allows.
MaxCalls == 2

\* Stand-ins for -Infinity and +Infinity: every score lies in -10..10.
NegInfinity == -1000
PosInfinity == 1000

Cells == 0 .. (SIZE * SIZE - 1)

Rows == 0 .. (SIZE - 1)

\* Array.from({ length: SIZE }, () => Array(SIZE).fill(''))
EmptyBoard == [k \in Cells |-> ""]

\* board.flat(): the cells of the rows, one row after the other.
flat(board) == [k \in Cells |-> board[(k \div SIZE) * SIZE + (k % SIZE)]]

\* Array.prototype.join over an array arr of n strings.
RECURSIVE JoinFrom(_, _, _, _)
JoinFrom(arr, n, k, sep) ==
    IF k >= n THEN ""
    ELSE IF k = n - 1 THEN arr[k]
    ELSE arr[k] \o sep \o JoinFrom(arr, n, k + 1, sep)

join(arr, n, sep) == JoinFrom(arr, n, 0, sep)

\* Faulty variant of getBoardKey: the cells are joined as they are, the
\* empty cell as the empty string and without a separator.
getBoardKeyBare(board) == join(flat(board), SIZE * SIZE, "")

getBoardKey(board) ==
    LET cells  == flat(board)
        mapped == [k \in Cells |-> IF cells[k] = "" THEN "_" ELSE cells[k]]
    IN  join(mapped, SIZE * SIZE, ",")

\* board.map(row => [...row]): a new array with the same cells.  Merging
\* with the empty array adds nothing; it makes TLC hold the copy as an
\* explicit array, which the search then updates cell by cell.
copyBoard(board) == [k \in Cells |-> board[k]] @@ <<>>

formatBoard(board) ==
    LET rows == [r \in Rows |->
                    join([c \in Rows |->
                             IF board[r * SIZE + c] = "" THEN "." ELSE board[r * SIZE + c]],
                         SIZE, " ")]
    IN  join(rows, SIZE, "\n")

countMoves(board) == Cardinality({k \in Cells : board[k] # ""})

\* Faulty variant of LineCells: the lines are pushed from the last row and
\* column to the first.
LineCellsBottomUp ==
    << <<6, 7, 8>>, <<2, 5, 8>>, <<3, 4, 5>>, <<1, 4, 7>>,
       <<0, 1, 2>>, <<0, 3, 6>>, <<0, 4, 8>>, <<2, 4, 6>> >>

\* The cells of the lines in the order checkWinner pushes them (lines
\* 225-232): row 0, column 0, row 1, column 1, row 2, column 2, the main
\* diagonal, the anti-diagonal.
LineCells ==
    << <<0, 1, 2>>, <<0, 3, 6>>,
       <<3, 4, 5>>, <<1, 4, 7>>,
       <<6, 7, 8>>, <<2, 5, 8>>,
       <<0, 4, 8>>, <<2, 4, 6>> >>

\* The for loop over lines (lines 235-238), from the n-th line on; the two
\* tests are line.every(cell => cell === 'X') and the same for 'O'.
RECURSIVE ScanLines(_, _)
ScanLines(board, n) ==
    IF n > Len(LineCells) THEN "null"
    ELSE IF /\ board[LineCells[n][1]] = "X"
            /\ board[LineCells[n][2]] = "X"
            /\ board[LineCells[n][3]] = "X" THEN "X"
    ELSE IF /\ board[LineCells[n][1]] = "O"
            /\ board[LineCells[n][2]] = "O"
            /\ board[LineCells[n][3]] = "O" THEN "O"
    ELSE ScanLines(board, n + 1)

\* Returns "X", "O" or "null".
checkWinner(board) == ScanLines(board, 1)

evaluateBoard(board) ==
    LET w == checkWinner(board)
    IN  IF w = "O" THEN 10 ELSE IF w = "X" THEN -10 ELSE 0

\* Faulty variant of minimax: the position is scored as it stands, without
\* searching the replies.
minimaxStatic(board, isMaximizing) ==
    [val |-> evaluateBoard(board), board |-> board]

\* minimax writes into the board it is given and undoes each placement;
\* the model threads that buffer through the search and returns it with
\* the score: [val |-> score, board |-> the buffer on return].
RECURSIVE minimax(_, _), MinimaxLoop(_, _, _, _)
minimax(board, isMaximizing) ==
    LET score == evaluateBoard(board)
    IN  IF score # 0 THEN [val |-> score, board |-> board]
        ELSE IF countMoves(board) = SIZE * SIZE THEN [val |-> 0, board |-> board]
        ELSE IF isMaximizing
             THEN MinimaxLoop(board, TRUE, 0, NegInfinity)
             ELSE MinimaxLoop(board, FALSE, 0, PosInfinity)

\* The empty cells at or after cell k, and the first of a set of cells.
EmptyFrom(board, k) == {c \in k .. (SIZE * SIZE - 1) : board[c] = ""}
First(S) == CHOOSE c \in S : \A d \in S : c <= d

\* The nested for loops of minimax (lines 146-155 and 159-168) from cell
\* k = i * SIZE + j on: they go on to the next empty cell c, place the
\* mark, recurse, undo, and keep Math.max or Math.min of the values.
MinimaxLoop(board, isMaximizing, k, bestScore) ==
    LET rest == EmptyFrom(board, k)
    IN  IF rest = {} THEN [val |-> bestScore, board |-> board]
        ELSE LET c      == First(rest)
                 placed == [board EXCEPT ![c] = IF isMaximizing THEN "O" ELSE "X"]
                 res    == minimax(placed, ~isMaximizing)
                 undone == [res.board EXCEPT ![c] = ""]
             IN  IF \/ isMaximizing /\ res.val > bestScore
                    \/ ~isMaximizing /\ res.val < bestScore
                 THEN MinimaxLoop(undone, isMaximizing, c + 1, res.val)
                 ELSE MinimaxLoop(undone, isMaximizing, c + 1, bestScore)

\* Faulty variant of BestMoveLoop: the placement is not undone, line 122
\* is missing.
RECURSIVE BestMoveLoopNoUndo(_, _, _, _)
BestMoveLoopNoUndo(board, k, bestVal, bestMove) ==
    IF k >= SIZE * SIZE
    THEN [row |-> bestMove.row, col |-> bestMove.col, board |-> board]
    ELSE IF board[k] = ""
         THEN LET placed == [board EXCEPT ![k] = "O"]
                  res    == minimax(placed, FALSE)
              IN  IF res.val > bestVal
                  THEN BestMoveLoopNoUndo(res.board, k + 1, res.val,
                                          [row |-> k \div SIZE, col |-> k % SIZE])
                  ELSE BestMoveLoopNoUndo(res.board, k + 1, bestVal, bestMove)
         ELSE BestMoveLoopNoUndo(board, k + 1, bestVal, bestMove)

\* Faulty variant of BestMoveLoop: the test is value >= bestVal, so a later
\* cell with an equal score replaces an earlier one.
RECURSIVE BestMoveLoopLast(_, _, _, _)
BestMoveLoopLast(board, k, bestVal, bestMove) ==
    IF k >= SIZE * SIZE
    THEN [row |-> bestMove.row, col |-> bestMove.col, board |-> board]
    ELSE IF board[k] = ""
         THEN LET placed == [board EXCEPT ![k] = "O"]
                  res    == minimax(placed, FALSE)
                  undone == [res.board EXCEPT ![k] = ""]
              IN  IF res.val >= bestVal
                  THEN BestMoveLoopLast(undone, k + 1, res.val,
                                        [row |-> k \div SIZE, col |-> k % SIZE])
                  ELSE BestMoveLoopLast(undone, k + 1, bestVal, bestMove)
         ELSE BestMoveLoopLast(board, k + 1, bestVal, bestMove)

\* The nested for loops of getBestMove (lines 117-129) from cell
\* k = i * SIZE + j on; the board buffer is threaded as in minimax.
RECURSIVE BestMoveLoop(_, _, _, _)
BestMoveLoop(board, k, bestVal, bestMove) ==
    IF k >= SIZE * SIZE
    THEN [row |-> bestMove.row, col |-> bestMove.col, board |-> board]
    ELSE IF board[k] = ""
         THEN LET placed == [board EXCEPT ![k] = "O"]
                  res    == minimax(placed, FALSE)
                  undone == [res.board EXCEPT ![k] = ""]
              IN  IF res.val > bestVal
                  THEN BestMoveLoop(undone, k + 1, res.val,
                                    [row |-> k \div SIZE, col |-> k % SIZE])
                  ELSE BestMoveLoop(undone, k + 1, bestVal, bestMove)
         ELSE BestMoveLoop(board, k + 1, bestVal, bestMove)

\* Faulty variant of getBestMove: bestVal starts at +Infinity, so no move
\* is ever better and the move stays { row: -1, col: -1 }.
getBestMoveNoMove(board) ==
    BestMoveLoop(board, 0, PosInfinity, [row |-> -1, col |-> -1])

\* Faulty variant of getBestMove: the move is returned as initialised, and
\* initialised to { row: 0, col: 0 }.
getBestMoveOrigin(board) == [row |-> 0, col |-> 0, board |-> board]

\* Faulty variant of getBestMove: the first empty cell is taken unscored.
getBestMoveFirstEmpty(board) ==
    LET c == First(EmptyFrom(board, 0))
    IN  [row |-> c \div SIZE, col |-> c % SIZE, board |-> board]

\* Returns [row, col, board]: the move, and the caller's board on return.
getBestMove(board) ==
    BestMoveLoop(board, 0, NegInfinity, [row |-> -1, col |-> -1])

\* The module as loaded (lines 7-8), before anything ran.
Loaded ==
    /\ currentPage = 1
    /\ pages = [k \in {} |-> 0]
    /\ queue = <<>>
    /\ enqueued = <<>>
    /\ dequeued = <<>>
    /\ written = <<>>
    /\ calls = 0
    /\ previous = [k \in {} |-> 0]
    /\ replies = <<>>

Init ==
    /\ Loaded
    /\ pc = "start"
    /\ arg = <<>>
    /\ ret = <<>>

\* pages[key] = record: the key is added, or its record replaced.
Put(map, key, record) ==
    [x \in (DOMAIN map) \cup {key} |-> IF x = key THEN record ELSE map[x]]

\* Faulty variant of Known: the lookup never finds the key.
KnownNever(map, key) == FALSE

\* if (pages[newKey]), line 80.
Known(map, key) == key \in DOMAIN map

\* Faulty variant of shift: queue.pop(), the last key is taken.
pop(q) == [key |-> q[Len(q)], rest |-> SubSeq(q, 1, Len(q) - 1)]

\* queue.shift(), line 30: the first key and the queue without it.
shift(q) == [key |-> Head(q), rest |-> Tail(q)]

\* queue.push(newKey), line 92.
push(q, key) == Append(q, key)

\* Faulty variant of PlaceReply: the reply is written with the human's mark.
PlaceReplyAsX(board, best) ==
    [board EXCEPT ![best.row * SIZE + best.col] = "X"]

\* newBoard[bestRow][bestCol] = 'O', line 74.
PlaceReply(board, best) ==
    [board EXCEPT ![best.row * SIZE + best.col] = "O"]

\* Faulty variant of LinkIndex: row and column are swapped.
LinkIndexTransposed(r, c) == 3 + (c * SIZE + r)

\* The CSV slot of the move link of cell (r, c), line 97.
LinkIndex(r, c) == 3 + (r * SIZE + c)

\* Faulty variant of NewRecord: the page number is one too high.
NewRecordOffByOne(page, board) ==
    [page |-> page + 1, board |-> board, content |-> "", contentCsv |-> <<>>]

\* Faulty variant of NewRecord: the record keeps the initial board instead
\* of the board of its position.
NewRecordInitialBoard(page, board) ==
    [page |-> page, board |-> EmptyBoard, content |-> "", contentCsv |-> <<>>]

\* A record as lines 20-25 and 86-91 create it.
NewRecord(page, board) ==
    [page |-> page, board |-> board, content |-> "", contentCsv |-> <<>>]

\* Lines 17-27: the page of the empty board is created and its key queued.
Start ==
    /\ pc = "start"
    /\ LET initialBoard == EmptyBoard
           initialKey   == getBoardKey(initialBoard)
       IN  /\ pages' = Put(pages, initialKey, NewRecord(currentPage, initialBoard))
           /\ currentPage' = currentPage + 1
           /\ queue' = <<initialKey>>
           /\ enqueued' = Append(enqueued, initialKey)
    /\ calls' = calls + 1
    /\ pc' = "while"
    /\ UNCHANGED <<dequeued, written, previous, replies, arg, ret>>

\* Lines 63-75: the position after X on cell (r, c) and O's silent reply.
\* [ok |-> FALSE] stands for the TypeError of writing to newBoard[-1];
\* called tells whether getBestMove was called, and reply is then the board
\* it was given, the move it returned and the board as it left it.
NextPosition(board, r, c) ==
    LET newBoard     == [copyBoard(board) EXCEPT ![r * SIZE + c] = "X"]
        winnerAfterX == checkWinner(newBoard)
        movesAfterX  == countMoves(newBoard)
    IN  IF winnerAfterX = "null" /\ movesAfterX < SIZE * SIZE
        THEN LET best  == getBestMove(newBoard)
                 reply == [given |-> newBoard, row |-> best.row,
                           col |-> best.col, after |-> best.board]
             IN  IF best.row \in Rows /\ best.col \in Rows
                 THEN [ok |-> TRUE, board |-> PlaceReply(best.board, best),
                       called |-> TRUE, reply |-> reply]
                 ELSE [ok |-> FALSE, board |-> best.board,
                       called |-> TRUE, reply |-> reply]
        ELSE [ok |-> TRUE, board |-> newBoard, called |-> FALSE, reply |-> <<>>]

\* Lines 77-97 for the position newBoard after the move on (r, c): it is
\* looked up or created, and the move is linked to its page.  st holds what
\* the loops of one iteration read and write.
LinkMove(st, newBoard, r, c) ==
    LET newKey   == getBoardKey(newBoard)
        known    == Known(st.pages, newKey)
        nextPage == IF known THEN st.pages[newKey].page ELSE st.currentPage
        line     == "- Move to (row " \o ToString(r + 1) \o ", col "
                       \o ToString(c + 1) \o ") -> Go to page "
                       \o ToString(nextPage) \o "\n"
        linked   == [st EXCEPT !.content = @ \o line,
                               !.csv = [@ EXCEPT ![LinkIndex(r, c)] = ToString(nextPage)]]
    IN  IF known
        THEN linked
        ELSE [linked EXCEPT !.currentPage = @ + 1,
                            !.pages = Put(@, newKey, NewRecord(nextPage, newBoard)),
                            !.queue = push(@, newKey),
                            !.enqueued = Append(@, newKey)]

\* The loops of lines 60-99 from cell k on, in row-major order; an occupied
\* cell is passed over (line 62), a throw ends the loops.
RECURSIVE CellLoop(_, _, _)
CellLoop(st, board, k) ==
    IF k >= SIZE * SIZE \/ ~st.ok
    THEN st
    ELSE IF board[k] = ""
    THEN LET pos    == NextPosition(board, k \div SIZE, k % SIZE)
             logged == IF pos.called
                       THEN [st EXCEPT !.replies = Append(@, pos.reply)]
                       ELSE st
         IN  IF pos.ok
             THEN CellLoop(LinkMove(logged, pos.board, k \div SIZE, k % SIZE),
                           board, k + 1)
             ELSE [logged EXCEPT !.ok = FALSE]
    ELSE CellLoop(st, board, k + 1)

\* Lines 30-101: what one iteration of the while loop computes for the key
\* it shifts off the queue.
Iteration(boardKey) ==
    LET record     == pages[boardKey]
        board      == record.board
        header     == "Page " \o ToString(record.page) \o "\n\n"
                         \o formatBoard(board) \o "\n"
        movesCount == countMoves(board)
        winner     == checkWinner(board)
        row        == [k \in 0 .. 20 |->
                         IF k = 0 THEN ToString(record.page)
                         ELSE IF k >= 12 THEN board[k - 12]
                         ELSE ""]
        st         == [ok |-> TRUE, currentPage |-> currentPage, pages |-> pages,
                       queue |-> shift(queue).rest, enqueued |-> enqueued,
                       replies |-> replies, content |-> header, csv |-> row]
    IN  IF winner # "null"
        THEN [st EXCEPT !.content = @ \o "Game Over! Winner: " \o winner \o "\n",
                        !.csv = [@ EXCEPT ![1] = "You lost!"]]
        ELSE IF movesCount = SIZE * SIZE
        THEN [st EXCEPT !.content = @ \o "Game Over! It's a draw.\n",
                        !.csv = [@ EXCEPT ![2] = "It's a draw!"]]
        ELSE CellLoop([st EXCEPT !.content = @ \o "Choose your next move (You are X):\n"],
                      board, 0)

\* Lines 29-105: one iteration of the while loop.  The key is shifted off
\* the queue, its page is expanded, and the text and the CSV row are stored
\* in its record (lines 103-104) unless the iteration threw.
WhileBody ==
    /\ pc = "while"
    /\ Len(queue) > 0
    /\ \E boardKey \in {shift(queue).key} :
         \E st \in {Iteration(boardKey)} :
            /\ currentPage' = st.currentPage
            /\ queue' = st.queue
            /\ enqueued' = st.enqueued
            /\ replies' = st.replies
            /\ dequeued' = Append(dequeued, boardKey)
            /\ IF st.ok
               THEN /\ pages' = [st.pages EXCEPT ![boardKey].content = st.content,
                                                 ![boardKey].contentCsv = st.csv]
                    /\ written' = Append(written, boardKey)
                    /\ pc' = "while"
               ELSE /\ pages' = st.pages
                    /\ written' = written
                    /\ pc' = "threw"
    /\ UNCHANGED <<calls, previous, arg, ret>>

\* Lines 29 and 106: the queue is empty and generatePaths returns pages.
Return ==
    /\ pc = "while"
    /\ Len(queue) = 0
    /\ pc' = "returned"
    /\ UNCHANGED <<currentPage, pages, queue, enqueued, dequeued, written,
                   calls, previous, replies, arg, ret>>

\* generatePaths() is called again in the same module scope: currentPage
\* and pages are module-level (lines 7-8) and keep their values.
CallAgain ==
    /\ pc = "returned"
    /\ calls < MaxCalls
    /\ pc' = "start"
    /\ previous' = pages
    /\ UNCHANGED <<currentPage, pages, queue, enqueued, dequeued, written, calls,
                   replies, arg, ret>>

Next ==
    \/ Start
    \/ WhileBody
    \/ Return

Spec == Init /\ [][Next]_vars

NextTwice == Next \/ CallAgain

SpecTwice == Init /\ [][NextTwice]_vars

\* What a step of Next does to pc and dequeued: Start enters the loop, an
\* iteration shifts the head of the queue and comes back to the loop head
\* or throws, Return leaves the loop.  Step is enabled exactly where Next
\* is, and a step of Next is a step of Step.
Step ==
    \/ pc = "start" /\ pc' = "while" /\ dequeued' = dequeued
    \/ /\ pc = "while"
       /\ Len(queue) > 0
       /\ pc' \in {"while", "threw"}
       /\ dequeued' = Append(dequeued, shift(queue).key)
    \/ pc = "while" /\ Len(queue) = 0 /\ pc' = "returned" /\ dequeued' = dequeued

\* The program is one sequential thread that runs on until it returns or
\* throws: it never stops while a step is possible.
FairSpec == Spec /\ WF_<<pc, dequeued>>(Step)

(***************************************************************************)
(* Vocabulary of the properties.                                           *)
(***************************************************************************)

Keys == DOMAIN pages

\* The key of the empty board (initialKey of line 18).
EmptyKey == getBoardKey(EmptyBoard)

\* A page whose text and CSV row have been stored (lines 103-104).
Expanded(key) == pages[key].content # ""

\* X holds all three cells of some row, column or diagonal.
HumanLine(board) ==
    \E n \in 1 .. Len(LineCells) :
        \A m \in 1 .. SIZE : board[LineCells[n][m]] = "X"

\* The cells whose move link is filled in a stored CSV row.
Transitions(row) == {c \in Cells : row[3 + c] # ""}

\* The key of the page a link numeral points to.
TargetIn(map, numeral) ==
    CHOOSE k \in DOMAIN map : ToString(map[k].page) = numeral

Target(numeral) == TargetIn(pages, numeral)

\* The page number of the page expanded last, 0 before the first.
LastDequeued ==
    IF Len(dequeued) = 0 THEN 0 ELSE pages[dequeued[Len(dequeued)]].page

(***************************************************************************)
(* C1: no board that is ever in the page map, during the run or after it,  *)
(* has X on every cell of a row, a column or a diagonal.                   *)
(***************************************************************************)
C1_NoHumanLine == \A k \in Keys : ~HumanLine(pages[k].board)

\* The run is over and its graph holds lost games and drawn games.
C1_Witness ==
    /\ pc = "returned"
    /\ \E k \in Keys : pages[k].contentCsv[1] = "You lost!"
    /\ \E k \in Keys : pages[k].contentCsv[2] = "It's a draw!"

(***************************************************************************)
(* C2: at every step the page numbers in the map are exactly 1..n for n    *)
(* pages, without gap or repeat, and the empty board is page 1.  (n pages  *)
(* whose numbers make up the n-element set 1..n cannot share a number.)    *)
(***************************************************************************)
C2_PageNumbers ==
    LET n == Cardinality(Keys)
    IN  /\ {pages[k].page : k \in Keys} = 1 .. n
        /\ n > 0 => EmptyKey \in Keys /\ pages[EmptyKey].page = 1

\* The run is under way: pages were expanded and more are queued.
C2_Witness ==
    /\ pc = "while"
    /\ Cardinality(Keys) > 12
    /\ Len(dequeued) > 3
    /\ Len(queue) > 3

(***************************************************************************)
(* C3: pages are dequeued in increasing page-number order, and a page      *)
(* created while page P is expanded gets a number greater than P's and     *)
(* greater than the number of every page created before it.                *)
(***************************************************************************)
BfsOrderStep ==
    LET before == Len(enqueued)
        after  == Len(enqueued')
        P      == dequeued'[Len(dequeued')]
    IN  /\ dequeued' # dequeued => pages'[P].page > LastDequeued
        /\ \A n \in (before + 1) .. after :
              /\ enqueued'[n] \notin Keys
              /\ dequeued' # dequeued => pages'[enqueued'[n]].page > pages'[P].page
              /\ \A k \in Keys : pages'[enqueued'[n]].page > pages[k].page
              /\ \A m \in (before + 1) .. (n - 1) :
                    pages'[enqueued'[n]].page > pages'[enqueued'[m]].page

C3_BfsOrder == [][BfsOrderStep]_vars

\* Several pages were expanded, and the last expansion created pages.
C3_Witness ==
    /\ pc = "while"
    /\ Len(dequeued) > 2
    /\ queue # <<>>
    /\ pages[queue[Len(queue)]].page = currentPage - 1
    /\ \E c \in Cells :
          pages[dequeued[Len(dequeued)]].contentCsv[3 + c]
             = ToString(currentPage - 1)

(***************************************************************************)
(* C4: no two pages of the map hold boards with the same cell contents;    *)
(* equivalently no two pages have the same canonical key.                  *)
(***************************************************************************)
C4_DistinctBoards ==
    /\ Cardinality({pages[k].board : k \in Keys}) = Cardinality(Keys)
    /\ Cardinality({getBoardKey(pages[k].board) : k \in Keys})
          = Cardinality(Keys)

\* A position was reached a second time: two expanded pages link to
\* the same page.
C4_Witness ==
    \E k, l \in Keys :
        /\ k # l
        /\ Expanded(k)
        /\ Expanded(l)
        /\ \E c, d \in Cells :
              /\ pages[k].contentCsv[3 + c] # ""
              /\ pages[k].contentCsv[3 + c] = pages[l].contentCsv[3 + d]

(***************************************************************************)
(* C5: in one run every page's key is put on the queue once, when the page *)
(* is created, and shifted off it once; a move whose position is already   *)
(* in the map links to the existing page number, creates no page and       *)
(* queues nothing; a page's content is written only in the iteration that  *)
(* dequeues it.                                                            *)
(***************************************************************************)
Range(seq) == {seq[n] : n \in 1 .. Len(seq)}

QueueOnce ==
    /\ enqueued = dequeued \o queue
    /\ Cardinality(Range(enqueued)) = Len(enqueued)
    /\ Range(enqueued) = Keys
    /\ pc # "threw" => written = dequeued
    /\ \A k \in Keys : Expanded(k) <=> k \in Range(written)

ReuseStep ==
    LET P       == dequeued'[Len(dequeued')]
        created == DOMAIN pages' \ Keys
        targets == {TargetIn(pages', pages'[P].contentCsv[3 + c]) :
                       c \in Transitions(pages'[P].contentCsv)}
    IN  /\ \A k \in Keys :
              /\ k \in DOMAIN pages'
              /\ pages'[k].page = pages[k].page
              /\ pages'[k].board = pages[k].board
              /\ pages'[k] # pages[k] =>
                    /\ dequeued' = Append(dequeued, k)
                    /\ ~Expanded(k)
        /\ dequeued' # dequeued =>
              /\ created = targets \ Keys
              /\ Range(enqueued') \ Range(enqueued) = created
              /\ Len(enqueued') = Len(enqueued) + Cardinality(created)

C5_OncePerKey == []QueueOnce /\ [][ReuseStep]_vars

\* The last iteration linked a move to a page that an earlier iteration
\* had created and linked, and the run goes on.
C5_Witness ==
    /\ pc = "while"
    /\ Len(written) > 1
    /\ Len(queue) > 0
    /\ LET P == written[Len(written)]
       IN  \E c \in Transitions(pages[P].contentCsv), n \in 1 .. (Len(written) - 1) :
              \E d \in Cells :
                 pages[written[n]].contentCsv[3 + d] = pages[P].contentCsv[3 + c]

(***************************************************************************)
(* C6: generatePaths terminates: the queue eventually is empty and the     *)
(* function returns, and then every page of the map has been expanded, its *)
(* text and its CSV row filled in.                                         *)
(***************************************************************************)
AllExpanded ==
    \A k \in Keys :
        /\ pages[k].content # ""
        /\ DOMAIN pages[k].contentCsv = 0 .. 20

C6_Terminates == <>(pc = "returned" /\ queue = <<>> /\ AllExpanded)

\* The function has returned a graph of several hundred expanded pages.
C6_Witness ==
    /\ pc = "returned"
    /\ Len(written) = Cardinality(Keys)
    /\ Len(written) > 300

(***************************************************************************)
(* C7: an expanded page whose board has no winner and an empty cell has a  *)
(* transition entry for every empty cell and for no occupied cell, hence   *)
(* as many entries as its board has empty cells.                           *)
(***************************************************************************)
InProgress(board) ==
    checkWinner(board) = "null" /\ countMoves(board) < SIZE * SIZE

C7_TransitionPerEmptyCell ==
    \A k \in Keys :
        Expanded(k) /\ InProgress(pages[k].board) =>
            /\ Transitions(pages[k].contentCsv)
                  = {c \in Cells : pages[k].board[c] = ""}
            /\ Cardinality(Transitions(pages[k].contentCsv))
                  = SIZE * SIZE - countMoves(pages[k].board)

\* An expanded page with marks in a pattern that is not symmetric about
\* the main diagonal, and an expanded page with three empty cells.
C7_Witness ==
    /\ \E k \in Keys :
          /\ Expanded(k)
          /\ InProgress(pages[k].board)
          /\ pages[k].board[1] # ""
          /\ pages[k].board[3] = ""
    /\ \E k \in Keys :
          /\ Expanded(k)
          /\ InProgress(pages[k].board)
          /\ countMoves(pages[k].board) = 6

(***************************************************************************)
(* C8: page 1, the empty board, has 9 transition entries; its entry for    *)
(* the centre cell leads to a page with X on the centre and exactly one    *)
(* O, on a corner, and that page has exactly 7 transition entries.         *)
(***************************************************************************)
Centre == 1 * SIZE + 1

Corners == {0, SIZE - 1, SIZE * (SIZE - 1), SIZE * SIZE - 1}

C8_CentreOpening ==
    (EmptyKey \in Keys /\ Expanded(EmptyKey)) =>
        LET first == pages[EmptyKey]
            reply == pages[Target(first.contentCsv[3 + Centre])]
        IN  /\ first.page = 1
            /\ Cardinality(Transitions(first.contentCsv)) = 9
            /\ \E k \in Keys :
                  ToString(pages[k].page) = first.contentCsv[3 + Centre]
            /\ {c \in Cells : reply.board[c] = "X"} = {Centre}
            /\ \E o \in Corners : {c \in Cells : reply.board[c] = "O"} = {o}
            /\ Expanded(Target(first.contentCsv[3 + Centre])) =>
                  Cardinality(Transitions(reply.contentCsv)) = 7

\* Page 1 and the page of the centre opening have both been expanded.
C8_Witness ==
    /\ EmptyKey \in Keys
    /\ Expanded(EmptyKey)
    /\ \E k \in Keys :
          /\ ToString(pages[k].page) = pages[EmptyKey].contentCsv[3 + Centre]
          /\ Expanded(k)
          /\ pages[k].board[Centre] = "X"

(***************************************************************************)
(* C9: for each of the four corners, from the page that page 1 links to    *)
(* for the opening in that corner some sequence of transitions ends on a   *)
(* page marked as a draw.                                                  *)
(***************************************************************************)
RECURSIVE CanReachDraw(_)
CanReachDraw(k) ==
    \/ pages[k].contentCsv[2] = "It's a draw!"
    \/ \E c \in Transitions(pages[k].contentCsv) :
          CanReachDraw(Target(pages[k].contentCsv[3 + c]))

C9_CornerOpeningDraws ==
    pc = "returned" =>
        \A o \in Corners :
            /\ pages[EmptyKey].contentCsv[3 + o] # ""
            /\ CanReachDraw(Target(pages[EmptyKey].contentCsv[3 + o]))

\* The graph is complete, the page of every corner opening is in progress
\* with X on that corner, and some page of the graph is a forced loss.
C9_Witness ==
    /\ pc = "returned"
    /\ \A o \in Corners :
          LET k == Target(pages[EmptyKey].contentCsv[3 + o])
          IN  /\ pages[k].board[o] = "X"
              /\ InProgress(pages[k].board)
    /\ \E k \in Keys : InProgress(pages[k].board) /\ ~CanReachDraw(k)

(***************************************************************************)
(* C10: a second run of generatePaths yields the same set of keys, the     *)
(* same page number for every key and the same transitions as the first.   *)
(***************************************************************************)
C10_SecondRunIdentical ==
    (pc = "returned" /\ calls = 2) =>
        /\ DOMAIN pages = DOMAIN previous
        /\ \A k \in DOMAIN pages :
              /\ pages[k].page = previous[k].page
              /\ \A c \in Cells :
                    pages[k].contentCsv[3 + c] = previous[k].contentCsv[3 + c]

(***************************************************************************)
(* The functions called on their own.  A call is a behaviour of two        *)
(* states: the argument is drawn, then the function is applied to it.      *)
(***************************************************************************)

\* Every 3x3 array of cells over "", "X" and "O".
AllBoards == [Cells -> {"", "X", "O"}]

\* getBoardKey(arg), lines 194-199.
KeyInit ==
    /\ Loaded
    /\ pc = "call"
    /\ arg \in AllBoards
    /\ ret = ""

CallGetBoardKey ==
    /\ pc = "call"
    /\ ret' = getBoardKey(arg)
    /\ pc' = "done"
    /\ UNCHANGED <<currentPage, pages, queue, enqueued, dequeued, written,
                   calls, previous, replies, arg>>

KeySpec == KeyInit /\ [][CallGetBoardKey]_vars

(***************************************************************************)
(* C11: getBoardKey is injective and depends on the cell contents only:    *)
(* two boards over "", "X", "O" have the same key exactly if they agree on *)
(* every cell, the empty cell having a code of its own.                    *)
(***************************************************************************)
\* The boards that differ from board in one cell, and those in which one
\* mark of board has moved to an empty cell.
Changed(board) ==
    {[board EXCEPT ![c] = m] : c \in Cells, m \in {"", "X", "O"}} \ {board}

Moved(board) ==
    {[board EXCEPT ![c] = "", ![d] = board[c]] :
        c \in {x \in Cells : board[x] # ""}, d \in {x \in Cells : board[x] = ""}}

\* As many keys as boards: no two of the 3^9 boards share a key.
KeysOfAllBoards == {getBoardKey(b) : b \in AllBoards}

C11_KeyInjective ==
    pc = "done" =>
        /\ ret = getBoardKey([c \in Cells |-> arg[c]])
        /\ \A b \in Changed(arg) \cup Moved(arg) : getBoardKey(b) # ret
        /\ Cardinality(KeysOfAllBoards) = Cardinality(AllBoards)

\* The key of a board that holds both marks and empty cells was computed.
C11_Witness ==
    /\ pc = "done"
    /\ ret = "X,_,O,_,X,_,_,_,O"
    /\ arg[0] = "X" /\ arg[1] = "" /\ arg[2] = "O"

(***************************************************************************)
(* C12: every board stored in the page map has as many X as O or one X     *)
(* more, and at most 9 marks; an in-progress page has as many X as O.      *)
(***************************************************************************)
Count(board, mark) == Cardinality({c \in Cells : board[c] = mark})

C12_MarkCounts ==
    \A k \in Keys :
        LET board == pages[k].board
        IN  /\ Count(board, "X") - Count(board, "O") \in {0, 1}
            /\ countMoves(board) <= SIZE * SIZE
            /\ InProgress(board) => Count(board, "X") = Count(board, "O")

\* The map holds a full board with five X and four O, and an in-progress
\* board with three marks of each.
C12_Witness ==
    /\ \E k \in Keys :
          Count(pages[k].board, "X") = 5 /\ Count(pages[k].board, "O") = 4
    /\ \E k \in Keys :
          /\ InProgress(pages[k].board)
          /\ Count(pages[k].board, "X") = 3
          /\ Count(pages[k].board, "O") = 3

(***************************************************************************)
(* C13: an expanded page shows exactly one of three outcomes in its CSV    *)
(* row: the lost marker only where O holds a complete line, the draw       *)
(* marker only on a full board without winner, move links only on an       *)
(* in-progress page and only at empty cells; a terminal page has no link.  *)
(***************************************************************************)
MarkLine(board, mark) ==
    \E n \in 1 .. Len(LineCells) :
        \A m \in 1 .. SIZE : board[LineCells[n][m]] = mark

C13_OneOutcome ==
    \A k \in Keys :
        Expanded(k) =>
            LET board == pages[k].board
                row   == pages[k].contentCsv
                lost  == row[1] # ""
                draw  == row[2] # ""
                links == Transitions(row) # {}
            IN  /\ lost => row[1] = "You lost!" /\ MarkLine(board, "O")
                /\ draw => /\ row[2] = "It's a draw!"
                           /\ countMoves(board) = SIZE * SIZE
                           /\ ~MarkLine(board, "X")
                           /\ ~MarkLine(board, "O")
                /\ links => /\ InProgress(board)
                            /\ Transitions(row) \subseteq {c \in Cells : board[c] = ""}
                /\ ~InProgress(board) => Transitions(row) = {}
                /\ Cardinality({o \in {"lost", "draw", "links"} :
                                   \/ o = "lost" /\ lost
                                   \/ o = "draw" /\ draw
                                   \/ o = "links" /\ links}) = 1

\* Expanded pages of all three kinds: a lost game, a draw, and a game in
\* progress with a single empty cell and a single link.
C13_Witness ==
    /\ \E k \in Keys : Expanded(k) /\ pages[k].contentCsv[1] = "You lost!"
    /\ \E k \in Keys : Expanded(k) /\ pages[k].contentCsv[2] = "It's a draw!"
    /\ \E k \in Keys :
          /\ Expanded(k)
          /\ countMoves(pages[k].board) = SIZE * SIZE - 1
          /\ Cardinality(Transitions(pages[k].contentCsv)) = 1

(***************************************************************************)
(* C14: for an in-progress page P and an empty cell c of its board, the    *)
(* page that P's transition for c points to holds P's board with X on c    *)
(* if that placement wins or fills the board, and otherwise that board     *)
(* with one O more, on the cell getBestMove returned for it; no other cell *)
(* differs.  Stated of the page each iteration expands.                    *)
(***************************************************************************)
\* The calls of getBestMove made in the step.
NewReplies == {replies'[n] : n \in (Len(replies) + 1) .. Len(replies')}

TargetBoardStep ==
    written' # written =>
        LET P     == pages'[written'[Len(written')]]
        IN  InProgress(P.board) =>
              \A c \in {x \in Cells : P.board[x] = ""} :
                 LET withX  == [P.board EXCEPT ![c] = "X"]
                     target == pages'[TargetIn(pages', P.contentCsv[3 + c])].board
                 IN  /\ P.contentCsv[3 + c] # ""
                     /\ IF MarkLine(withX, "X") \/ MarkLine(withX, "O")
                           \/ countMoves(withX) = SIZE * SIZE
                        THEN target = withX
                        ELSE \E e \in NewReplies :
                                /\ e.given = withX
                                /\ e.row \in Rows
                                /\ e.col \in Rows
                                /\ withX[e.row * SIZE + e.col] = ""
                                /\ target = [withX EXCEPT ![e.row * SIZE + e.col] = "O"]

C14_TargetBoards == [][TargetBoardStep]_vars

\* An expanded page has a move that fills the board without a reply, and
\* another expanded page has a move that O answered.
C14_Witness ==
    /\ \E k \in Keys :
          /\ Expanded(k)
          /\ countMoves(pages[k].board) = SIZE * SIZE - 1
          /\ Transitions(pages[k].contentCsv) # {}
    /\ \E k \in Keys :
          /\ Expanded(k)
          /\ countMoves(pages[k].board) = 4
          /\ \E n \in 1 .. Len(replies) :
                /\ countMoves(replies[n].given) = 5
                /\ \E c \in Cells :
                      replies[n].given = [pages[k].board EXCEPT ![c] = "X"]

(***************************************************************************)
(* getBestMove and minimax called on their own, on every board over "",    *)
(* "X", "O" that has between 1 and MaxEmpty empty cells (getBestMove) or   *)
(* between 0 and MaxEmpty empty cells (minimax, either side to move).      *)
(***************************************************************************)
MaxEmpty == 4

SearchBoards(least) ==
    {b \in AllBoards :
        /\ SIZE * SIZE - countMoves(b) >= least
        /\ SIZE * SIZE - countMoves(b) <= MaxEmpty}

SearchInit ==
    /\ Loaded
    /\ pc = "call"
    /\ \/ arg \in [fn : {"getBestMove"}, board : SearchBoards(1)]
       \/ arg \in [fn : {"minimax"}, board : SearchBoards(0),
                   isMaximizing : BOOLEAN]
    /\ ret = <<>>

CallGetBestMove ==
    /\ pc = "call"
    /\ arg.fn = "getBestMove"
    /\ ret' = getBestMove(arg.board)
    /\ pc' = "done"
    /\ UNCHANGED <<currentPage, pages, queue, enqueued, dequeued, written,
                   calls, previous, replies, arg>>

CallMinimax ==
    /\ pc = "call"
    /\ arg.fn = "minimax"
    /\ ret' = minimax(arg.board, arg.isMaximizing)
    /\ pc' = "done"
    /\ UNCHANGED <<currentPage, pages, queue, enqueued, dequeued, written,
                   calls, previous, replies, arg>>

SearchNext == CallGetBestMove \/ CallMinimax

SearchSpec == SearchInit /\ [][SearchNext]_vars

(***************************************************************************)
(* C15: on a board with an empty cell getBestMove returns the first empty  *)
(* cell, in row-major order, whose score is the maximum over the empty     *)
(* cells; the score of a cell is minimax of the board with O on it and X   *)
(* to move.  A later cell with the same score does not replace it.         *)
(***************************************************************************)
Score(board, c) == minimax([board EXCEPT ![c] = "O"], FALSE).val

BestCells(board) ==
    {c \in Cells :
        /\ board[c] = ""
        /\ \A d \in Cells : board[d] = "" => Score(board, d) <= Score(board, c)}

C15_FirstBestCell ==
    (pc = "done" /\ arg.fn = "getBestMove") =>
        /\ ret.row \in Rows
        /\ ret.col \in Rows
        /\ ret.row * SIZE + ret.col \in BestCells(arg.board)
        /\ \A c \in BestCells(arg.board) : ret.row * SIZE + ret.col <= c

\* getBestMove returned from a board without winner on which a later empty
\* cell scores as high as the returned one and an earlier one scores lower.
C15_Witness ==
    /\ pc = "done"
    /\ arg.fn = "getBestMove"
    /\ checkWinner(arg.board) = "null"
    /\ \E c, d \in Cells :
          /\ arg.board[c] = ""
          /\ c < ret.row * SIZE + ret.col
          /\ Score(arg.board, c) < Score(arg.board, ret.row * SIZE + ret.col)
          /\ d > ret.row * SIZE + ret.col
          /\ d \in BestCells(arg.board)

(***************************************************************************)
(* checkWinner called on its own, on every board over "", "X", "O".        *)
(***************************************************************************)
WinnerInit ==
    /\ Loaded
    /\ pc = "call"
    /\ arg \in AllBoards
    /\ ret = ""

CallCheckWinner ==
    /\ pc = "call"
    /\ ret' = checkWinner(arg)
    /\ pc' = "done"
    /\ UNCHANGED <<currentPage, pages, queue, enqueued, dequeued, written,
                   calls, previous, replies, arg>>

WinnerSpec == WinnerInit /\ [][CallCheckWinner]_vars

(***************************************************************************)
(* C16: on every board, also one on which both marks hold a complete line, *)
(* checkWinner returns the mark of the first complete line in the order    *)
(* rows top to bottom, columns left to right, main diagonal,               *)
(* anti-diagonal, and no winner if no line is complete.  (checkWinner      *)
(* pushes row i and column i in turn; lines of different marks cannot      *)
(* cross, so they are two rows or two columns, which both orders scan in   *)
(* the same order.)                                                        *)
(***************************************************************************)
RowsThenColumns ==
    << <<0, 1, 2>>, <<3, 4, 5>>, <<6, 7, 8>>,
       <<0, 3, 6>>, <<1, 4, 7>>, <<2, 5, 8>>,
       <<0, 4, 8>>, <<2, 4, 6>> >>

Complete(board, line) ==
    /\ board[line[1]] # ""
    /\ board[line[2]] = board[line[1]]
    /\ board[line[3]] = board[line[1]]

FirstComplete(board) ==
    LET hits == {n \in 1 .. Len(RowsThenColumns) : Complete(board, RowsThenColumns[n])}
    IN  IF hits = {}
        THEN "null"
        ELSE board[RowsThenColumns[CHOOSE n \in hits : \A m \in hits : n <= m][1]]

C16_FirstLineInOrder == pc = "done" => ret = FirstComplete(arg)

\* checkWinner returned O from a board on which X holds a complete line
\* further down.
C16_Witness ==
    /\ pc = "done"
    /\ ret = "O"
    /\ Complete(arg, <<0, 1, 2>>)
    /\ Complete(arg, <<6, 7, 8>>)
    /\ arg[0] = "O"
    /\ arg[6] = "X"

(***************************************************************************)
(* C17: getBestMove and minimax leave the board they are given unchanged:  *)
(* on return, also on the early return from a finished board, every cell   *)
(* holds what it held at the call.                                         *)
(***************************************************************************)
C17_BoardRestored ==
    pc = "done" => \A c \in Cells : ret.board[c] = arg.board[c]

\* minimax returned from a search that placed marks, and the score was
\* decided below the first level.
C17_Witness ==
    /\ pc = "done"
    /\ arg.fn = "minimax"
    /\ arg.isMaximizing
    /\ checkWinner(arg.board) = "null"
    /\ countMoves(arg.board) = SIZE * SIZE - MaxEmpty
    /\ ret.val = -10
    /\ ret.board = arg.board

(***************************************************************************)
(* C18: whenever the builder calls getBestMove, the move returned lies in  *)
(* the grid and names a cell that is empty on the board given, never the   *)
(* initial { row: -1, col: -1 } and never an occupied cell; the builder    *)
(* overwrites no mark and never throws.                                    *)
(***************************************************************************)
C18_ReplyOnEmptyCell ==
    /\ pc # "threw"
    /\ \A n \in 1 .. Len(replies) :
          /\ replies[n].row \in Rows
          /\ replies[n].col \in Rows
          /\ replies[n].given[replies[n].row * SIZE + replies[n].col] = ""
          /\ replies[n].after[replies[n].row * SIZE + replies[n].col] = ""

\* The builder has called getBestMove many times, also on a board whose
\* first empty cell was not the move returned.
C18_Witness ==
    /\ pc = "while"
    /\ Len(replies) > 100
    /\ \E n \in 1 .. Len(replies) :
          \E c \in Cells :
             /\ c < replies[n].row * SIZE + replies[n].col
             /\ replies[n].given[c] = ""

(***************************************************************************)
(* C19: every in-progress page is a position the human cannot win by       *)
(* force: the minimax value of its board with X to move, +10 for a win of  *)
(* O, -10 for a win of X and 0 for a draw, is at least 0.  Stated of each  *)
(* page when it enters the map.                                            *)
(***************************************************************************)
\* The value of board is at least 0: a line of O, or no line of X and a full
\* board, or, X to move, every move of X leads to such a board, or, O to
\* move, some move of O does.
RECURSIVE ValueAtLeast0(_, _)
ValueAtLeast0(board, xToMove) ==
    IF MarkLine(board, "O") THEN TRUE
    ELSE IF MarkLine(board, "X") THEN FALSE
    ELSE IF countMoves(board) = SIZE * SIZE THEN TRUE
    ELSE IF xToMove
    THEN \A c \in {x \in Cells : board[x] = ""} :
            ValueAtLeast0([board EXCEPT ![c] = "X"], FALSE)
    ELSE \E c \in {x \in Cells : board[x] = ""} :
            ValueAtLeast0([board EXCEPT ![c] = "O"], TRUE)

NoForcedWinStep ==
    \A k \in DOMAIN pages' \ Keys :
        InProgress(pages'[k].board) => ValueAtLeast0(pages'[k].board, TRUE)

C19_NoForcedWin == [][NoForcedWinStep]_vars

\* The map holds an in-progress page on which X has two marks in a line
\* and O the third cell, and a page on which O has completed a line.
C19_Witness ==
    /\ \E k \in Keys :
          /\ InProgress(pages[k].board)
          /\ ValueAtLeast0(pages[k].board, TRUE)
          /\ \E n \in 1 .. Len(LineCells) :
                /\ pages[k].board[LineCells[n][1]] = "X"
                /\ pages[k].board[LineCells[n][2]] = "X"
                /\ pages[k].board[LineCells[n][3]] = "O"
    /\ \E k \in Keys : MarkLine(pages[k].board, "O")

(***************************************************************************)
(* C20: in the finished graph the page numbers that can be reached from    *)
(* page 1 along transition entries are exactly the page numbers 1..n of    *)
(* the n pages: every transition entry is the number of a page of the      *)
(* graph, and every page but page 1 is the target of a transition.  That   *)
(* the numbers are 1..n and that no entry dangles holds of the graph at    *)
(* every step, and so of the finished one.                                 *)
(***************************************************************************)
\* The page numbers as the CSV rows print them.
Numerals == {ToString(pages[k].page) : k \in Keys}

\* The transition entries of the page with the given numeral.
LinksOf(numeral) ==
    LET row == pages[Target(numeral)].contentCsv
    IN  {row[3 + c] : c \in Transitions(row)}

RECURSIVE Closure(_, _)
Closure(seen, frontier) ==
    IF frontier = {}
    THEN seen
    ELSE LET next == UNION {LinksOf(x) : x \in frontier} \ seen
         IN  Closure(seen \cup next, next)

AllLinks ==
    UNION {{pages[k].contentCsv[3 + c] : c \in Transitions(pages[k].contentCsv)} :
              k \in {x \in Keys : Expanded(x)}}

C20_AllReachable ==
    /\ Numerals = {ToString(n) : n \in 1 .. Cardinality(Keys)}
    /\ AllLinks \subseteq Numerals
    /\ pc = "returned" =>
          /\ Numerals \ {"1"} \subseteq AllLinks
          /\ Closure({"1"}, {"1"}) = Numerals

\* The graph is finished, and some page is three transitions away from
\* page 1 and no nearer.
C20_Witness ==
    /\ pc = "returned"
    /\ LET one   == LinksOf("1")
           two   == UNION {LinksOf(x) : x \in one}
           three == UNION {LinksOf(x) : x \in two}
       IN  three \ (two \cup one \cup {"1"}) # {}

====
